---- MODULE Spec2Model ----
(***************************************************************************)
(* Harbor Freight coupon scraper (scraper.py) and its chat front end       *)
(* (app.py).                                                               *)
(*                                                                         *)
(* Text is a sequence of one-character strings, so that substring tests,   *)
(* the three regular expressions and the formatting are computed rather    *)
(* than assumed.  An optional value (Python's None / Optional[...]) is a   *)
(* sequence of length 0 or 1.                                              *)
(***************************************************************************)
EXTENDS Integers, Sequences, FiniteSets, TLC

VARIABLES
    \* get_total_pages on one page-1 document
    doc, pages_out,
    \* scrape_page on one document
    page, page_out,
    \* one run of scrape_all
    pc, total_pages, page_num, all_coupons, result, log, fetched,
    \* to_llm_context on one coupon list
    coupons_in, context,
    \* one user session of the chat app
    app_pc, secrets, session, loads, sent, runs

vars == <<doc, pages_out, page, page_out, pc, total_pages, page_num, all_coupons,
          result, log, fetched, coupons_in, context, app_pc, secrets, session,
          loads, sent, runs>>

-----------------------------------------------------------------------------
(* Python values *)

None == <<>>
Some(x) == <<x>>
IsNone(o) == Len(o) = 0

-----------------------------------------------------------------------------
(* Characters and strings *)

DigitChars == <<"0", "1", "2", "3", "4", "5", "6", "7", "8", "9">>
UpperChars == <<"A", "B", "C", "D", "E", "F", "G", "H", "I", "J", "K", "L", "M",
                "N", "O", "P", "Q", "R", "S", "T", "U", "V", "W", "X", "Y", "Z">>
LowerChars == <<"a", "b", "c", "d", "e", "f", "g", "h", "i", "j", "k", "l", "m",
                "n", "o", "p", "q", "r", "s", "t", "u", "v", "w", "x", "y", "z">>

IsDigit(c) == \E i \in 1..10 : DigitChars[i] = c
DigitVal(c) == (CHOOSE i \in 1..10 : DigitChars[i] = c) - 1
IsSpace(c) == c \in {" ", "\n", "\t"}
LowerTable ==
    [c \in {UpperChars[i] : i \in 1..26} |->
        LowerChars[CHOOSE i \in 1..26 : UpperChars[i] = c]]
\* str.lower() of one character, as re.IGNORECASE compares
Lower(c) == IF c \in DOMAIN LowerTable THEN LowerTable[c] ELSE c

\* s[i:i+len(pat)] == pat
MatchesAt(s, i, pat) ==
    /\ i >= 1
    /\ i + Len(pat) - 1 <= Len(s)
    /\ \A k \in 1..Len(pat) : s[i + k - 1] = pat[k]

\* the same under re.IGNORECASE
MatchesAtNoCase(s, i, pat) ==
    /\ i >= 1
    /\ i + Len(pat) - 1 <= Len(s)
    /\ \A k \in 1..Len(pat) : Lower(s[i + k - 1]) = Lower(pat[k])

\* pat in s
Contains(s, pat) == \E i \in 1..(Len(s) + 1) : MatchesAt(s, i, pat)

\* s.startswith(pat)
StartsWith(s, pat) == MatchesAt(s, 1, pat)

Min(S) == CHOOSE x \in S : \A y \in S : x <= y

RECURSIVE SkipSpaces(_, _)
SkipSpaces(s, i) ==
    IF i <= Len(s) /\ IsSpace(s[i]) THEN SkipSpaces(s, i + 1) ELSE i

\* the end of the longest run of at most n digits that starts at i
RECURSIVE SkipDigits(_, _, _)
SkipDigits(s, i, n) ==
    IF n > 0 /\ i <= Len(s) /\ IsDigit(s[i]) THEN SkipDigits(s, i + 1, n - 1) ELSE i

RECURSIVE SkipDigitsCommas(_, _)
SkipDigitsCommas(s, i) ==
    IF i <= Len(s) /\ (IsDigit(s[i]) \/ s[i] = ",")
    THEN SkipDigitsCommas(s, i + 1)
    ELSE i

\* str.strip()
RECURSIVE StripLeft(_)
StripLeft(s) ==
    IF Len(s) > 0 /\ IsSpace(s[1]) THEN StripLeft(Tail(s)) ELSE s

RECURSIVE StripRight(_)
StripRight(s) ==
    IF Len(s) > 0 /\ IsSpace(s[Len(s)])
    THEN StripRight(SubSeq(s, 1, Len(s) - 1))
    ELSE s

Strip(s) == StripRight(StripLeft(s))

\* str.replace(c, "")
RECURSIVE RemoveChar(_, _)
RemoveChar(s, c) ==
    IF Len(s) = 0 THEN <<>>
    ELSE IF s[1] = c THEN RemoveChar(Tail(s), c)
    ELSE <<s[1]>> \o RemoveChar(Tail(s), c)

\* int(digits)
RECURSIVE IntOf(_)
IntOf(s) ==
    IF Len(s) = 0 THEN 0
    ELSE 10 * IntOf(SubSeq(s, 1, Len(s) - 1)) + DigitVal(s[Len(s)])

\* str(n), n >= 0
RECURSIVE StrOf(_)
StrOf(n) ==
    IF n < 10 THEN <<DigitChars[n + 1]>>
    ELSE StrOf(n \div 10) \o <<DigitChars[(n % 10) + 1]>>

RECURSIVE Pow10(_)
Pow10(k) == IF k = 0 THEN 1 ELSE 10 * Pow10(k - 1)

-----------------------------------------------------------------------------
(* scraper.py: constants *)

HF_COUPON_BASE_URL ==
    <<"h", "t", "t", "p", "s", ":", "/", "/", "g", "o", ".", "h", "a", "r", "b", "o",
      "r", "f", "r", "e", "i", "g", "h", "t", ".", "c", "o", "m">>

\* seconds in the source (0.05), milliseconds here
HF_QUERY_DELAY == 50

\* the page count get_total_pages falls back to
DefaultTotalPages == 8

\* the shortest name _extract_name_and_url accepts
MinNameLen == 5

LitCode == <<"C", "o", "d", "e">>
LitExp == <<"E", "x", "p">>
LitHttp == <<"h", "t", "t", "p">>

-----------------------------------------------------------------------------
(* scraper.py: field extraction *)

\* float(s) for s made of digits and at most one ".": None stands for ValueError.
\* A value is mant / 10^scale with no trailing zero in the fraction, so that
\* equal numbers are equal values ("49", "49." and "49.00" are all 49.0).
RECURSIVE DropTrailingZeros(_)
DropTrailingZeros(s) ==
    IF Len(s) > 0 /\ s[Len(s)] = "0"
    THEN DropTrailingZeros(SubSeq(s, 1, Len(s) - 1))
    ELSE s

PyFloat(s) ==
    LET dots  == {i \in 1..Len(s) : s[i] = "."}
        dot   == IF dots = {} THEN Len(s) + 1 ELSE Min(dots)
        whole == SubSeq(s, 1, dot - 1)
        frac  == SubSeq(s, dot + 1, Len(s))
        kept  == DropTrailingZeros(frac)
    IN  IF Len(whole) + Len(frac) = 0 \/ Cardinality(dots) > 1
        THEN None
        ELSE Some([mant |-> IntOf(whole \o kept), scale |-> Len(kept)])

\* re.search(r"\$([0-9,]+\.?\d*)", text): group 1 of the leftmost match
PriceMatch(text) ==
    LET hits == {i \in 1..Len(text) :
                    text[i] = "$" /\ SkipDigitsCommas(text, i + 1) > i + 1}
    IN  IF hits = {} THEN None
        ELSE LET i  == Min(hits)
                 j  == SkipDigitsCommas(text, i + 1)
                 j2 == IF j <= Len(text) /\ text[j] = "." THEN j + 1 ELSE j
                 j3 == SkipDigits(text, j2, Len(text))
             IN  Some(SubSeq(text, i + 1, j3 - 1))

\* _extract_price without its try/except: the ValueError of float() escapes
extract_price_uncaught(text) ==
    LET m == PriceMatch(text)
    IN  IF IsNone(m) THEN [raised |-> FALSE, value |-> None]
        ELSE LET v == PyFloat(RemoveChar(m[1], ","))
             IN  [raised |-> IsNone(v), value |-> v]

_extract_price(text) ==
    LET m == PriceMatch(text)
    IN  IF IsNone(m) THEN [raised |-> FALSE, value |-> None]
        ELSE [raised |-> FALSE, value |-> PyFloat(RemoveChar(m[1], ","))]

\* re.search(r"Code\s*[:#]?\s*(\d+)", text, re.IGNORECASE) tried at position i
CodeMatchAt(text, i) ==
    IF ~MatchesAtNoCase(text, i, LitCode) THEN None
    ELSE LET j  == SkipSpaces(text, i + 4)
             j2 == IF j <= Len(text) /\ text[j] \in {":", "#"} THEN j + 1 ELSE j
             j3 == SkipSpaces(text, j2)
             j4 == SkipDigits(text, j3, Len(text))
         IN  IF j4 > j3 THEN Some(SubSeq(text, j3, j4 - 1)) ELSE None

_extract_code(text) ==
    LET hits == {i \in 1..Len(text) : ~IsNone(CodeMatchAt(text, i))}
    IN  IF hits = {} THEN <<>> ELSE CodeMatchAt(text, Min(hits))[1]

\* re.search(r"Exp\.?\s*(\d{1,2}/\d{1,2}/\d{2,4})", text, re.IGNORECASE) at i
ExpMatchAt(text, i) ==
    IF ~MatchesAtNoCase(text, i, LitExp) THEN None
    ELSE LET j  == IF i + 3 <= Len(text) /\ text[i + 3] = "." THEN i + 4 ELSE i + 3
             d1 == SkipSpaces(text, j)
             e1 == SkipDigits(text, d1, 2)
             d2 == e1 + 1
             e2 == SkipDigits(text, d2, 2)
             d3 == e2 + 1
             e3 == SkipDigits(text, d3, 4)
         IN  IF /\ e1 > d1 /\ e1 <= Len(text) /\ text[e1] = "/"
                /\ e2 > d2 /\ e2 <= Len(text) /\ text[e2] = "/"
                /\ e3 >= d3 + 2
             THEN Some(SubSeq(text, d1, e3 - 1))
             ELSE None

_extract_expiration(text) ==
    LET hits == {i \in 1..Len(text) : ~IsNone(ExpMatchAt(text, i))}
    IN  IF hits = {} THEN <<>> ELSE ExpMatchAt(text, Min(hits))[1]

\* a str is truthy when it is not empty; None is falsy
Truthy(o) == ~IsNone(o) /\ Len(o[1]) > 0

_extract_image_url(article) ==
    IF IsNone(article.img) THEN None
    ELSE IF Truthy(article.img[1].src) THEN article.img[1].src
    ELSE article.img[1].data_src

\* lines 113-115: make the URL absolute if it is relative
absolute_url(url) ==
    IF Len(url) > 0 /\ ~StartsWith(url, LitHttp) THEN HF_COUPON_BASE_URL \o url ELSE url

_extract_name_and_url(article) ==
    LET title_elem == IF ~IsNone(article.h2) THEN article.h2 ELSE article.h3
    IN  IF IsNone(title_elem) THEN None
        ELSE LET link_elem == IF ~IsNone(title_elem[1].a)
                              THEN title_elem[1].a
                              ELSE article.a
             IN  IF IsNone(link_elem) THEN None
                 ELSE LET name == Strip(link_elem[1].text)
                          href == IF IsNone(link_elem[1].href)
                                  THEN <<>>
                                  ELSE link_elem[1].href[1]
                          url  == absolute_url(href)
                      IN  IF Len(name) = 0 \/ Len(name) < MinNameLen
                          THEN None
                          ELSE Some([name |-> name, url |-> url])

Coupon(name, price, code, expiration, image_url, url) ==
    [name |-> name, price |-> price, code |-> code, expiration |-> expiration,
     image_url |-> image_url, url |-> url]

\* article.get_text()
get_text(article) == article.text

\* the result is [raised, coupon]: raised when an exception leaves the method,
\* else the Optional[Coupon] it returns.  A Coupon's price is the float itself.
_parse_article(article) ==
    LET res == _extract_name_and_url(article)
    IN  IF IsNone(res) THEN [raised |-> FALSE, coupon |-> None]
        ELSE LET text_content == get_text(article)
                 code       == _extract_code(text_content)
                 expiration == _extract_expiration(text_content)
                 price      == _extract_price(text_content)
                 image_url  == _extract_image_url(article)
             IN  IF price.raised THEN [raised |-> TRUE, coupon |-> None]
                 ELSE IF ~(/\ Len(code) > 0
                           /\ Len(expiration) > 0
                           /\ ~IsNone(price.value)
                           /\ Truthy(image_url))
                 THEN [raised |-> FALSE, coupon |-> None]
                 ELSE [raised |-> FALSE,
                       coupon |-> Some(Coupon(res[1].name, price.value[1], code,
                                              expiration, image_url[1], res[1].url))]

\* the pre-filter of scrape_page with the case of the two markers ignored
looks_like_coupon_nocase(text_content) ==
    /\ \E i \in 1..Len(text_content) : MatchesAtNoCase(text_content, i, LitCode)
    /\ \E i \in 1..Len(text_content) : MatchesAtNoCase(text_content, i, LitExp)

\* lines 90-92: the articles scrape_page does not skip
looks_like_coupon(text_content) ==
    ~(~Contains(text_content, LitCode) \/ ~Contains(text_content, LitExp))

\* lines 88-96, the loop of scrape_page over the articles, in document order
RECURSIVE scrape_articles(_)
scrape_articles(articles) ==
    IF Len(articles) = 0 THEN [raised |-> FALSE, coupons |-> <<>>]
    ELSE LET article == Head(articles)
             rest    == scrape_articles(Tail(articles))
         IN  IF ~looks_like_coupon(get_text(article)) THEN rest
             ELSE LET coupon == _parse_article(article)
                  IN  IF coupon.raised \/ rest.raised
                      THEN [raised |-> TRUE, coupons |-> <<>>]
                      ELSE IF IsNone(coupon.coupon) THEN rest
                      ELSE [raised |-> FALSE,
                            coupons |-> <<coupon.coupon[1]>> \o rest.coupons]

-----------------------------------------------------------------------------
(* The documents the scraper is run on.                                    *)
(*                                                                         *)
(* An article is what the code observes of an <article> element: its first *)
(* h2 and h3 (each with its first anchor), its first anchor, its first img *)
(* and its text.  Its text is the anchor's text followed by the price, the *)
(* code and the expiration as the page prints them.                        *)

Anchor(text, href) == [text |-> text, href |-> href]

MkArticle(s, t, h, p, c, e, g) ==
    LET anchor == Some(Anchor(t, h))
    IN  [h2   |-> IF s = "h2" THEN Some([a |-> anchor])
                  ELSE IF s \in {"h2_bare", "no_anchor"} THEN Some([a |-> None])
                  ELSE None,
         h3   |-> IF s = "h3" THEN Some([a |-> anchor]) ELSE None,
         a    |-> IF s = "no_anchor" THEN None ELSE anchor,
         img  |-> g,
         text |-> (IF s = "no_anchor" THEN <<>> ELSE t) \o <<" ">> \o p
                      \o <<"\n">> \o c \o <<" ">> \o e]

\* no heading; anchor in an h2; anchor in an h3; h2 without an anchor and an
\* anchor elsewhere; h2 and no anchor at all
Structures == {"none", "h2", "h3", "h2_bare", "no_anchor"}

NameDrill == <<"D", "r", "i", "l", "l">>
NameSaws == <<"S", "a", "w", "s">>
NamePadded == <<" ", " ", "S", "a", "w", " ", "\n">>
AnchorTexts == {NameDrill, NameSaws, NamePadded, <<>>}

HrefRelative == <<"/", "d", "e", "a", "l", "/", "1">>
HrefAbsolute == <<"h", "t", "t", "p", "s", ":", "/", "/", "w", "w", "w", ".", "h", "a", "r", "b", "o", "r", "f", "r", "e", "i", "g", "h", "t", ".", "c", "o", "m", "/", "d">>
HrefFtp == <<"f", "t", "p", ":", "/", "/", "f", "/", "d">>
Hrefs == {None, Some(HrefRelative), Some(HrefAbsolute), Some(HrefFtp)}

Price49 == <<"$", "4", "9">>
Price1299 == <<"$", "1", ",", "2", "9", "9", ".", "9", "9">>
PriceZero == <<"$", "0">>
PriceCommaOnly == <<"$", ",">>
PriceTexts == {<<>>, Price49, Price1299, PriceZero, PriceCommaOnly}

Code12345 == <<"C", "o", "d", "e", ":", " ", "1", "2", "3", "4", "5">>
CodeUpper77 == <<"C", "O", "D", "E", " ", "#", "7", "7">>
CodeNoDigits == <<"C", "o", "d", "e", " ", "T", "B", "D">>
CodeTexts == {<<>>, Code12345, CodeUpper77, CodeNoDigits}

ExpDec31 == <<"E", "x", "p", ".", " ", "1", "2", "/", "3", "1", "/", "2", "5">>
ExpUpperJan5 == <<"E", "X", "P", " ", "1", "/", "5", "/", "2", "0", "2", "6">>
ExpNoDate == <<"E", "x", "p", " ", "s", "o", "o", "n">>
ExpTexts == {<<>>, ExpDec31, ExpUpperJan5, ExpNoDate}

ImgSrc == [src |-> Some(<<"/", "i", ".", "p", "n", "g">>), data_src |-> None]
ImgLazy == [src |-> None, data_src |-> Some(<<"/", "l", "a", "z", "y", ".", "p", "n", "g">>)]
ImgEmpty == [src |-> Some(<<>>), data_src |-> None]
Imgs == {None, Some(ImgSrc), Some(ImgLazy), Some(ImgEmpty)}

ArticleSpace ==
    {MkArticle(s, t, h, p, c, e, g) :
        s \in Structures, t \in AnchorTexts, h \in Hrefs, p \in PriceTexts,
        c \in CodeTexts, e \in ExpTexts, g \in Imgs}

\* the articles the longer documents are made of: two well-formed coupons, one
\* without a price, one whose "$" match is no number, one whose markers are
\* upper case only
WellFormedA ==
    MkArticle("h2", NameDrill, Some(HrefRelative), Price49, Code12345, ExpDec31,
              Some(ImgSrc))
WellFormedB ==
    MkArticle("h3", NameDrill, Some(HrefAbsolute), Price1299, Code12345, ExpDec31,
              Some(ImgLazy))
MissingPrice ==
    MkArticle("h2", NameDrill, Some(HrefRelative), <<>>, Code12345, ExpDec31,
              Some(ImgSrc))
BadPrice ==
    MkArticle("h2", NameDrill, Some(HrefRelative), PriceCommaOnly, Code12345,
              ExpDec31, Some(ImgSrc))
UpperOnly ==
    MkArticle("h2", NameDrill, Some(HrefRelative), Price49, CodeUpper77,
              ExpUpperJan5, Some(ImgSrc))
PageArticles == {WellFormedA, WellFormedB, MissingPrice, BadPrice, UpperOnly}

\* the most articles of a document made of PageArticles
MaxArticles == 4

SeqsUpTo(S, n) == UNION {[1..k -> S] : k \in 0..n}

Documents == {<<a>> : a \in ArticleSpace} \cup SeqsUpTo(PageArticles, MaxArticles)

-----------------------------------------------------------------------------
(* The five runs the module describes share no state: each specification   *)
(* moves its own variables and holds the others at rest.                   *)

PaginationIdle == doc = None /\ pages_out = None
PageIdle == page = None /\ page_out = None
ScrapeIdle ==
    /\ pc = "idle" /\ total_pages = 0 /\ page_num = 0 /\ all_coupons = <<>>
    /\ result = None /\ log = <<>> /\ fetched = <<>>
FormatIdle == coupons_in = <<>> /\ context = None
AppIdle ==
    /\ app_pc = "idle" /\ secrets = FALSE /\ session = None /\ loads = <<>>
    /\ sent = <<>> /\ runs = 0

pagination_vars == <<doc, pages_out>>
page_vars == <<page, page_out>>
scrape_vars == <<pc, total_pages, page_num, all_coupons, result, log, fetched>>
format_vars == <<coupons_in, context>>
app_vars == <<app_pc, secrets, session, loads, sent, runs>>

-----------------------------------------------------------------------------
(* scrape_page on one fetched document (lines 83-98)                       *)

InitPage ==
    /\ page \in Documents
    /\ page_out = None
    /\ PaginationIdle /\ ScrapeIdle /\ FormatIdle /\ AppIdle

ScrapeDocument ==
    /\ IsNone(page_out)
    /\ page_out' = Some(scrape_articles(page))
    /\ UNCHANGED <<page, pagination_vars, scrape_vars, format_vars, app_vars>>

NextPage == ScrapeDocument

SpecPage == InitPage /\ [][NextPage]_vars

PageReturned == ~IsNone(page_out) /\ ~page_out[1].raised
PageCoupons == page_out[1].coupons

\* price > 0
Positive(price) == price.mant > 0

IsLetter(c) == \E i \in 1..26 : UpperChars[i] = c \/ LowerChars[i] = c

\* the URL starts with a scheme: letters, then ":"
HasScheme(url) ==
    \E i \in 2..Len(url) : url[i] = ":" /\ \A k \in 1..(i - 1) : IsLetter(url[k])

\* C1: every Coupon scrape_page returns has a non-empty name, code, expiration,
\* image_url and url, and a price greater than zero.
C1_EveryFieldPopulated ==
    PageReturned =>
        \A i \in 1..Len(PageCoupons) :
            /\ Len(PageCoupons[i].name) > 0
            /\ Len(PageCoupons[i].code) > 0
            /\ Len(PageCoupons[i].expiration) > 0
            /\ Len(PageCoupons[i].image_url) > 0
            /\ Len(PageCoupons[i].url) > 0
            /\ Positive(PageCoupons[i].price)

HasBothMarkers(article) ==
    Contains(article.text, LitCode) /\ Contains(article.text, LitExp)

\* C2: an article whose text lacks the literal "Code" or the literal "Exp"
\* contributes no coupon: the result is that of the document with those articles
\* taken out, and has at most one coupon per article that carries both.
C2_OnlyMarkedArticles ==
    PageReturned =>
        /\ PageCoupons = scrape_articles(SelectSeq(page, HasBothMarkers)).coupons
        /\ Len(PageCoupons) <= Len(SelectSeq(page, HasBothMarkers))

\* C2's case: an article whose markers are upper case only, every field of which
\* the extraction rules would find, yields nothing.
C2_Witness ==
    /\ PageReturned
    /\ Len(page) = 1
    /\ ~Contains(page[1].text, LitCode)
    /\ ~Contains(page[1].text, LitExp)
    /\ ~IsNone(_parse_article(page[1]).coupon)
    /\ PageCoupons = <<>>

\* every field of the article can be extracted
Extractable(article) ==
    /\ ~IsNone(_extract_name_and_url(article))
    /\ ~IsNone(_extract_price(article.text).value)
    /\ Len(_extract_code(article.text)) > 0
    /\ Len(_extract_expiration(article.text)) > 0
    /\ Truthy(_extract_image_url(article))

Qualifies(article) == HasBothMarkers(article) /\ Extractable(article)

CouponOf(article) ==
    Coupon(_extract_name_and_url(article)[1].name,
           _extract_price(article.text).value[1],
           _extract_code(article.text),
           _extract_expiration(article.text),
           _extract_image_url(article)[1],
           _extract_name_and_url(article)[1].url)

ExpectedCoupons(articles) ==
    LET q == SelectSeq(articles, Qualifies)
    IN  [k \in 1..Len(q) |-> CouponOf(q[k])]

\* C5: scrape_page raises nothing and returns, in document order, exactly one
\* Coupon for each article that passes the pre-filter and has every field
\* extractable, and none for any other article.
C5_OneCouponPerExtractableArticle ==
    ~IsNone(page_out) =>
        /\ ~page_out[1].raised
        /\ PageCoupons = ExpectedCoupons(page)

\* C5's case: three well-formed articles and one without a price give three
\* coupons.
C5_Witness ==
    /\ PageReturned
    /\ Len(page) = 4
    /\ Cardinality({i \in 1..4 : page[i] = MissingPrice}) = 1
    /\ \A i \in 1..4 : page[i] \in {WellFormedA, WellFormedB, MissingPrice}
    /\ Len(PageCoupons) = 3

\* C8: the url of every Coupon is absolute: never empty, an href without a scheme
\* prefixed with the base URL, an href with a scheme kept as it is.
C8_UrlAbsolute ==
    PageReturned =>
        /\ \A i \in 1..Len(PageCoupons) :
              Len(PageCoupons[i].url) > 0 /\ HasScheme(PageCoupons[i].url)
        /\ (Len(page) = 1 /\ Len(PageCoupons) = 1 /\ ~IsNone(page[1].a)
               /\ ~IsNone(page[1].a[1].href)) =>
              LET href == page[1].a[1].href[1]
              IN  PageCoupons[1].url =
                      IF HasScheme(href) THEN href ELSE HF_COUPON_BASE_URL \o href

-----------------------------------------------------------------------------
(* get_total_pages on the fetched page 1 (lines 50-77)                     *)
(*                                                                         *)
(* A page-1 document is what the code observes of it: its first            *)
(* div.nav-links, nav.navigation and div.pagination, each with its         *)
(* anchors, and all its anchors in document order.  An anchor is its href. *)

LitPage == <<"/", "p", "a", "g", "e", "/">>

\* re.search(r"/page/(\d+)/", href): int(group 1) of the leftmost match
PageMatch(href) ==
    LET ends(i) == SkipDigits(href, i + 6, Len(href))
        hits == {i \in 1..Len(href) :
                    /\ MatchesAt(href, i, LitPage)
                    /\ ends(i) > i + 6
                    /\ ends(i) <= Len(href)
                    /\ href[ends(i)] = "/"}
    IN  IF hits = {} THEN None
        ELSE Some(IntOf(SubSeq(href, Min(hits) + 6, ends(Min(hits)) - 1)))

\* link.get("href", "")
GetHref(link) == IF IsNone(link.href) THEN <<>> ELSE link.href[1]

Max2(a, b) == IF a >= b THEN a ELSE b

\* the loops of lines 60-65 and 71-75, from the running max_page
RECURSIVE max_page_of(_, _)
max_page_of(links, max_page) ==
    IF Len(links) = 0 THEN max_page
    ELSE LET match == PageMatch(GetHref(Head(links)))
         IN  max_page_of(Tail(links),
                         IF ~IsNone(match) THEN Max2(max_page, match[1]) ELSE max_page)

HrefMatches(link) == ~IsNone(link.href) /\ ~IsNone(PageMatch(link.href[1]))

get_total_pages(soup) ==
    LET pagination ==
            IF ~IsNone(soup.nav_links) THEN soup.nav_links
            ELSE IF ~IsNone(soup.navigation) THEN soup.navigation
            ELSE soup.pagination
    IN  IF ~IsNone(pagination)
        THEN max_page_of(pagination[1], 1)
        ELSE LET all_links == SelectSeq(soup.anchors, HrefMatches)
                 max_page  == max_page_of(all_links, 1)
             IN  IF max_page > 1 THEN max_page ELSE DefaultTotalPages

\* the largest page number an anchor of a page-1 document names
MaxPageNum == 3
\* the most anchors of a page-1 document outside its pagination containers
MaxOtherLinks == 2

HrefAbout == <<"/", "a", "b", "o", "u", "t">>
PageHref(n) == LitPage \o StrOf(n) \o <<"/">>
Links ==
    {[href |-> None], [href |-> Some(HrefAbout)]}
        \cup {[href |-> Some(PageHref(n))] : n \in 1..MaxPageNum}
        \cup {[href |-> Some(HF_COUPON_BASE_URL \o PageHref(MaxPageNum))]}

\* no such container, an empty one, one with a single anchor
Containers == {None, Some(<<>>)} \cup {Some(<<l>>) : l \in Links}

ContainerLinks(c) == IF IsNone(c) THEN <<>> ELSE c[1]

Page1Documents ==
    {[nav_links |-> c1, navigation |-> c2, pagination |-> c3,
      anchors |-> ContainerLinks(c1) \o ContainerLinks(c2) \o ContainerLinks(c3) \o ls] :
        c1 \in Containers, c2 \in Containers, c3 \in Containers,
        ls \in SeqsUpTo(Links, MaxOtherLinks)}

InitPagination ==
    /\ doc \in Page1Documents
    /\ pages_out = None
    /\ PageIdle /\ ScrapeIdle /\ FormatIdle /\ AppIdle

ParsePagination ==
    /\ IsNone(pages_out)
    /\ pages_out' = Some(get_total_pages(doc))
    /\ UNCHANGED <<doc, page_vars, scrape_vars, format_vars, app_vars>>

NextPagination == ParsePagination

SpecPagination == InitPagination /\ [][NextPagination]_vars

NoContainer(soup) ==
    IsNone(soup.nav_links) /\ IsNone(soup.navigation) /\ IsNone(soup.pagination)

PageNumbers(soup) ==
    {PageMatch(soup.anchors[i].href[1])[1] :
        i \in {j \in 1..Len(soup.anchors) : HrefMatches(soup.anchors[j])}}

\* C6: without a pagination container, get_total_pages returns the largest page
\* number among the anchors whose href matches /page/<digits>/, and 8 only when
\* no anchor matches.
C6_FallbackIsMaxOrDefault ==
    (~IsNone(pages_out) /\ NoContainer(doc)) =>
        /\ PageNumbers(doc) # {} =>
              /\ pages_out[1] \in PageNumbers(doc)
              /\ \A n \in PageNumbers(doc) : n <= pages_out[1]
        /\ PageNumbers(doc) = {} => pages_out[1] = DefaultTotalPages

-----------------------------------------------------------------------------
(* One run of scrape_all (lines 174-187).  Each fetch and each sleep is a  *)
(* step; log records them in the order they happen, fetched the documents  *)
(* scrape_page was given.                                                  *)

\* f"{HF_COUPON_BASE_URL}/page/{page_num}/"
page_url(n) == HF_COUPON_BASE_URL \o PageHref(n)

FetchEvent(by, n, ok) ==
    [op |-> "fetch", by |-> by, url |-> page_url(n), ok |-> ok, delay |-> 0]
SleepEvent(n) ==
    [op |-> "sleep", by |-> "scrape_all", url |-> page_url(n), ok |-> TRUE,
     delay |-> HF_QUERY_DELAY]

\* the documents the site serves for a listing page
ScrapeDocuments ==
    {<<>>, <<WellFormedA, MissingPrice>>, <<WellFormedB, UpperOnly, WellFormedA>>}

\* lines 83-98 on each of them
scrape_page == [soup \in ScrapeDocuments |-> scrape_articles(soup)]

InitScrape ==
    /\ pc = "get_total_pages"
    /\ total_pages = 0
    /\ page_num = 0
    /\ all_coupons = <<>>
    /\ result = None
    /\ log = <<>>
    /\ fetched = <<>>
    /\ PaginationIdle /\ PageIdle /\ FormatIdle /\ AppIdle

\* a failed fetch handed back as a result: the caller carries on with what it has
fetch_failure_swallowed ==
    /\ pc' = "done"
    /\ result' = Some(all_coupons)
    /\ UNCHANGED <<total_pages, page_num, all_coupons, fetched>>

\* lines 42-43: session.get times out or raise_for_status raises; nothing between
\* _fetch_page and the caller of scrape_all catches it
fetch_failure ==
    /\ pc' = "raised"
    /\ UNCHANGED <<total_pages, page_num, all_coupons, result, fetched>>

\* line 176, the fetch of line 48 succeeding
GetTotalPages ==
    /\ pc = "get_total_pages"
    /\ \E soup \in Page1Documents :
          /\ total_pages' = get_total_pages(soup)
          /\ page_num' = 1
    /\ pc' = "scrape_page"
    /\ log' = Append(log, FetchEvent("get_total_pages", 1, TRUE))
    /\ UNCHANGED <<all_coupons, result, fetched>>
    /\ UNCHANGED <<pagination_vars, page_vars, format_vars, app_vars>>

\* line 176, the fetch of line 48 failing
GetTotalPagesFails ==
    /\ pc = "get_total_pages"
    /\ log' = Append(log, FetchEvent("get_total_pages", 1, FALSE))
    /\ fetch_failure
    /\ UNCHANGED <<pagination_vars, page_vars, format_vars, app_vars>>

\* all_coupons.extend(coupons) the wrong way round
extend_front(coupons_so_far, coupons) == coupons \o coupons_so_far

\* line 181: all_coupons.extend(coupons)
extend(coupons_so_far, coupons) == coupons_so_far \o coupons

\* lines 180-181, the fetch of line 82 succeeding
ScrapePage ==
    /\ pc = "scrape_page"
    /\ \E soup \in ScrapeDocuments :
          LET coupons == scrape_page[soup]
          IN  /\ fetched' = Append(fetched, [url |-> page_url(page_num), soup |-> soup])
              /\ IF coupons.raised
                 THEN pc' = "raised" /\ UNCHANGED all_coupons
                 ELSE pc' = "paged" /\ all_coupons' = extend(all_coupons, coupons.coupons)
    /\ log' = Append(log, FetchEvent("scrape_page", page_num, TRUE))
    /\ UNCHANGED <<total_pages, page_num, result>>
    /\ UNCHANGED <<pagination_vars, page_vars, format_vars, app_vars>>

\* line 180, the fetch of line 82 failing
ScrapePageFails ==
    /\ pc = "scrape_page"
    /\ log' = Append(log, FetchEvent("scrape_page", page_num, FALSE))
    /\ fetch_failure
    /\ UNCHANGED <<pagination_vars, page_vars, format_vars, app_vars>>

\* the sleep taken after every page, the last one too
rate_limited_always(n, total) == n <= total

\* line 184: if page_num < total_pages
rate_limited(n, total) == n < total

\* the for of line 179 moving on, and line 187 once the range is used up
NextIteration ==
    IF page_num < total_pages
    THEN /\ page_num' = page_num + 1
         /\ pc' = "scrape_page"
         /\ UNCHANGED result
    ELSE /\ pc' = "done"
         /\ result' = Some(all_coupons)
         /\ UNCHANGED page_num

\* lines 184-185
Sleep ==
    /\ pc = "paged"
    /\ rate_limited(page_num, total_pages)
    /\ log' = Append(log, SleepEvent(page_num))
    /\ NextIteration
    /\ UNCHANGED <<total_pages, all_coupons, fetched>>
    /\ UNCHANGED <<pagination_vars, page_vars, format_vars, app_vars>>

\* line 184 false
NoSleep ==
    /\ pc = "paged"
    /\ ~rate_limited(page_num, total_pages)
    /\ NextIteration
    /\ UNCHANGED <<total_pages, all_coupons, fetched, log>>
    /\ UNCHANGED <<pagination_vars, page_vars, format_vars, app_vars>>

NextScrape ==
    \/ GetTotalPages
    \/ GetTotalPagesFails
    \/ ScrapePage
    \/ ScrapePageFails
    \/ Sleep
    \/ NoSleep

SpecScrape == InitScrape /\ [][NextScrape]_vars

IsFetch(e) == e.op = "fetch"
IsSleep(e) == e.op = "sleep"
LogIndex == 1..Len(log)

\* C3: a failed fetch ends the run: scrape_all raises and returns no list, and
\* the failed fetch is the last thing the run does (no retry, no further fetch).
C3_FailureAborts ==
    /\ \A i \in LogIndex :
          (IsFetch(log[i]) /\ ~log[i].ok) =>
              /\ i = Len(log)
              /\ pc = "raised"
              /\ IsNone(result)
    /\ pc = "raised" => (IsNone(result) /\ Len(log) > 0 /\ ~log[Len(log)].ok)
    /\ ~IsNone(result) => \A i \in LogIndex : log[i].ok

\* C3's case: the fetch of a later page fails after coupons were collected.
C3_Witness ==
    /\ pc = "raised"
    /\ Len(all_coupons) > 0
    /\ Len(fetched) >= 2
    /\ IsNone(result)

RECURSIVE Flatten(_)
Flatten(ss) == IF Len(ss) = 0 THEN <<>> ELSE Head(ss) \o Flatten(Tail(ss))

ExpectedOf == [soup \in ScrapeDocuments |-> ExpectedCoupons(soup)]

\* C4: a run without a failed fetch scrapes pages 1..N once each, in ascending
\* order, and returns the per-page results concatenated in that order, each
\* page's coupons in document order.
C4_ConcatenationInPageOrder ==
    pc = "done" =>
        /\ Len(fetched) = total_pages
        /\ \A i \in 1..Len(fetched) : fetched[i].url = page_url(i)
        /\ ~IsNone(result)
        /\ result[1] =
              Flatten([i \in 1..Len(fetched) |-> ExpectedOf[fetched[i].soup]])

\* C4's case: several pages, two of them with different coupons.
C4_Witness ==
    /\ pc = "done"
    /\ total_pages >= 3
    /\ fetched[1].soup = <<WellFormedB, UpperOnly, WellFormedA>>
    /\ fetched[2].soup = <<>>
    /\ fetched[3].soup = <<WellFormedA, MissingPrice>>
    /\ Len(result[1]) >= 3

ByScrapePage(e) == IsFetch(e) /\ e.by = "scrape_page"
ByGetTotalPages(e) == IsFetch(e) /\ e.by = "get_total_pages"
Finished == pc \in {"done", "raised"}

-----------------------------------------------------------------------------
(* to_llm_context on one coupon list (lines 194-203)                       *)

RECURSIVE Join(_, _)
Join(lines, sep) ==
    IF Len(lines) = 0 THEN <<>>
    ELSE IF Len(lines) = 1 THEN lines[1]
    ELSE lines[1] \o sep \o Join(Tail(lines), sep)

\* the "," of the format specification: groups of three digits
RECURSIVE GroupThousands(_)
GroupThousands(digits) ==
    IF Len(digits) <= 3 THEN digits
    ELSE GroupThousands(SubSeq(digits, 1, Len(digits) - 3)) \o <<",">>
             \o SubSeq(digits, Len(digits) - 2, Len(digits))

\* f"{price:,.2f}" for a price of at most two decimals, which every price of the
\* documents above is
FormatPrice(price) ==
    LET cents == price.mant * Pow10(2 - price.scale)
        frac  == cents % 100
    IN  GroupThousands(StrOf(cents \div 100)) \o <<".">>
            \o <<DigitChars[(frac \div 10) + 1], DigitChars[(frac % 10) + 1]>>

HeaderOpen == <<"#", " ", "H", "a", "r", "b", "o", "r", " ", "F", "r", "e", "i", "g", "h", "t",
      " ", "C", "o", "u", "p", "o", "n", "s", " ", "(">>
HeaderClose == <<" ", "d", "e", "a", "l", "s", ")", "\n">>
LitH2 == <<"#", "#", " ">>
LitPrice == <<"-", " ", "P", "r", "i", "c", "e", ":", " ", "$">>
LitCodeBullet == <<"-", " ", "C", "o", "d", "e", ":", " ">>
LitExpires == <<"-", " ", "E", "x", "p", "i", "r", "e", "s", ":", " ">>

coupon_lines(coupon) ==
    << LitH2 \o coupon.name,
       LitPrice \o FormatPrice(coupon.price),
       LitCodeBullet \o coupon.code,
       LitExpires \o coupon.expiration,
       <<>> >>

to_llm_context(coupons) ==
    LET header == HeaderOpen \o StrOf(Len(coupons)) \o HeaderClose
        lines  == <<header>> \o Flatten([i \in 1..Len(coupons) |-> coupon_lines(coupons[i])])
    IN  Join(lines, <<"\n">>)

\* an anchor whose text runs over two lines
NameTwoLines == <<"V", "i", "s", "e", "\n", "#", "#", " ", "C", "l", "a", "m", "p">>
TwoLineName ==
    MkArticle("h2", NameTwoLines, Some(HrefRelative), Price49, Code12345, ExpDec31,
              Some(ImgSrc))

\* coupons the scraper extracts
CouponPool ==
    {scrape_articles(<<a>>).coupons[1] : a \in {WellFormedA, WellFormedB, TwoLineName}}

\* the longest coupon list formatted
MaxCoupons == 4

InitFormat ==
    /\ coupons_in \in SeqsUpTo(CouponPool, MaxCoupons)
    /\ context = None
    /\ PaginationIdle /\ PageIdle /\ ScrapeIdle /\ AppIdle

Format ==
    /\ IsNone(context)
    /\ context' = Some(to_llm_context(coupons_in))
    /\ UNCHANGED <<coupons_in, pagination_vars, page_vars, scrape_vars, app_vars>>

NextFormat == Format

SpecFormat == InitFormat /\ [][NextFormat]_vars

\* text.split("\n")
RECURSIVE SplitLines(_)
SplitLines(text) ==
    LET breaks == {i \in 1..Len(text) : text[i] = "\n"}
    IN  IF breaks = {} THEN <<text>>
        ELSE <<SubSeq(text, 1, Min(breaks) - 1)>>
                 \o SplitLines(SubSeq(text, Min(breaks) + 1, Len(text)))

ContextLines == SplitLines(context[1])
Subheadings == {i \in 1..Len(ContextLines) : StartsWith(ContextLines[i], LitH2)}
\* the line number of the k-th subheading
RECURSIVE NthOf(_, _)
NthOf(S, k) == IF k = 1 THEN Min(S) ELSE NthOf(S \ {Min(S)}, k - 1)

\* C7: the text formatted from k coupons has a header stating k and exactly k
\* "## " lines, the i-th naming the i-th coupon and followed by its price, code
\* and expiration lines.
C7_OneSubheadingPerCoupon ==
    ~IsNone(context) =>
        /\ ContextLines[1] =
              HeaderOpen \o StrOf(Len(coupons_in)) \o SubSeq(HeaderClose, 1, 7)
        /\ Cardinality(Subheadings) = Len(coupons_in)
        /\ \A k \in 1..Len(coupons_in) :
              LET at == NthOf(Subheadings, k)
              IN  /\ ContextLines[at] = LitH2 \o coupons_in[k].name
                  /\ at + 3 <= Len(ContextLines)
                  /\ ContextLines[at + 1] = LitPrice \o FormatPrice(coupons_in[k].price)
                  /\ ContextLines[at + 2] = LitCodeBullet \o coupons_in[k].code
                  /\ ContextLines[at + 3] = LitExpires \o coupons_in[k].expiration

-----------------------------------------------------------------------------
(* app.py: one user session.  Streamlit runs main() from the top on every  *)
(* rerun; st.session_state outlives the runs of a session.                 *)

PromptPreamble ==
    <<"Y", "o", "u", " ", "a", "r", "e", " ", "a", " ", "h", "e", "l", "p", "f", "u",
      "l", " ", "H", "a", "r", "b", "o", "r", " ", "F", "r", "e", "i", "g", "h", "t",
      " ", "c", "o", "u", "p", "o", "n", " ", "a", "s", "s", "i", "s", "t", "a", "n",
      "t", ".", " ", "Y", "o", "u", " ", "h", "a", "v", "e", " ", "a", "c", "c", "e",
      "s", "s", " ", "t", "o", " ", "t", "h", "e", " ", "c", "u", "r", "r", "e", "n",
      "t", " ", "H", "a", "r", "b", "o", "r", " ", "F", "r", "e", "i", "g", "h", "t",
      " ", "c", "o", "u", "p", "o", "n", "s", " ", "a", "n", "d", " ", "c", "a", "n",
      " ", "h", "e", "l", "p", " ", "u", "s", "e", "r", "s", " ", "f", "i", "n", "d",
      " ", "d", "e", "a", "l", "s", ".", "\n", "\n", "W", "h", "e", "n", " ", "a",
      "n", "s", "w", "e", "r", "i", "n", "g", " ", "q", "u", "e", "s", "t", "i", "o",
      "n", "s", ":", "\n", "-", " ", "A", "l", "w", "a", "y", "s", " ", "i", "n",
      "c", "l", "u", "d", "e", " ", "t", "h", "e", " ", "c", "o", "u", "p", "o", "n",
      " ", "c", "o", "d", "e", ",", " ", "p", "r", "i", "c", "e", ",", " ", "a", "n",
      "d", " ", "e", "x", "p", "i", "r", "a", "t", "i", "o", "n", " ", "d", "a", "t",
      "e", " ", "w", "h", "e", "n", " ", "r", "e", "c", "o", "m", "m", "e", "n", "d",
      "i", "n", "g", " ", "i", "t", "e", "m", "s", "\n", "-", " ", "I", "f", " ",
      "m", "u", "l", "t", "i", "p", "l", "e", " ", "i", "t", "e", "m", "s", " ", "m",
      "a", "t", "c", "h", " ", "a", " ", "q", "u", "e", "r", "y", ",", " ", "l", "i",
      "s", "t", " ", "t", "h", "e", " ", "t", "o", "p", " ", "o", "p", "t", "i", "o",
      "n", "s", "\n", "-", " ", "B", "e", " ", "c", "o", "n", "c", "i", "s", "e",
      " ", "b", "u", "t", " ", "h", "e", "l", "p", "f", "u", "l", "\n", "-", " ",
      "I", "f", " ", "n", "o", " ", "c", "o", "u", "p", "o", "n", "s", " ", "m", "a",
      "t", "c", "h", " ", "w", "h", "a", "t", " ", "t", "h", "e", " ", "u", "s", "e",
      "r", " ", "i", "s", " ", "l", "o", "o", "k", "i", "n", "g", " ", "f", "o", "r",
      ",", " ", "s", "a", "y", " ", "s", "o", " ", "h", "o", "n", "e", "s", "t", "l",
      "y", "\n", "\n">>

\* get_system_prompt
get_system_prompt(coupon_context) == PromptPreamble \o coupon_context

\* what load_coupons returns when scrape_all does not raise: the formatted
\* coupons of the site at that moment
LoadableContexts == {to_llm_context(cs) : cs \in SeqsUpTo(CouponPool, 1)}

\* the script runs of the session
MaxRuns == 4

InitApp ==
    /\ app_pc = "idle"
    /\ secrets \in BOOLEAN
    /\ session = [messages |-> None, coupon_context |-> None]
    /\ loads = <<>>
    /\ sent = <<>>
    /\ runs = 0
    /\ PaginationIdle /\ PageIdle /\ ScrapeIdle /\ FormatIdle

others_unchanged == UNCHANGED <<pagination_vars, page_vars, scrape_vars, format_vars>>

\* lines 38-42: no OPENAI_API_KEY, st.stop()
RunStopsWithoutKey ==
    /\ app_pc = "idle"
    /\ runs < MaxRuns
    /\ ~secrets
    /\ runs' = runs + 1
    /\ UNCHANGED <<app_pc, secrets, session, loads, sent>>
    /\ others_unchanged

\* lines 30-46
RunStarts ==
    /\ app_pc = "idle"
    /\ runs < MaxRuns
    /\ secrets
    /\ runs' = runs + 1
    /\ session' = IF IsNone(session.messages)
                  THEN [session EXCEPT !.messages = Some(<<>>)]
                  ELSE session
    /\ app_pc' = "coupons"
    /\ UNCHANGED <<secrets, loads, sent>>
    /\ others_unchanged

\* the scrape made on every run of the script
load_needed_always(state) == TRUE

\* line 49: "coupon_context" not in st.session_state
load_needed(state) == IsNone(state.coupon_context)

\* lines 50-52, load_coupons returning
LoadCoupons ==
    /\ app_pc = "coupons"
    /\ load_needed(session)
    /\ \E ctx \in LoadableContexts :
          /\ session' = [session EXCEPT !.coupon_context = Some(ctx)]
          /\ loads' = Append(loads, Some(ctx))
    /\ app_pc' = "chat_input"
    /\ UNCHANGED <<secrets, sent, runs>>
    /\ others_unchanged

\* line 51, load_coupons raising: the run ends, nothing is stored
LoadCouponsFails ==
    /\ app_pc = "coupons"
    /\ load_needed(session)
    /\ loads' = Append(loads, None)
    /\ app_pc' = "idle"
    /\ UNCHANGED <<secrets, session, sent, runs>>
    /\ others_unchanged

\* line 49 false
ContextCached ==
    /\ app_pc = "coupons"
    /\ ~load_needed(session)
    /\ app_pc' = "chat_input"
    /\ UNCHANGED <<secrets, session, loads, sent, runs>>
    /\ others_unchanged

\* line 60: nothing was typed
NoPrompt ==
    /\ app_pc = "chat_input"
    /\ app_pc' = "idle"
    /\ UNCHANGED <<secrets, session, loads, sent, runs>>
    /\ others_unchanged

Prompts == {"drills?", "saws?"}

\* lines 60-78: the message is stored and the request, system prompt first, sent
Ask ==
    /\ app_pc = "chat_input"
    /\ \E prompt \in Prompts :
          session' = [session EXCEPT !.messages =
                         Some(Append(session.messages[1],
                                     [role |-> "user", content |-> prompt]))]
    /\ sent' = Append(sent, get_system_prompt(session.coupon_context[1]))
    /\ app_pc' = "streaming"
    /\ UNCHANGED <<secrets, loads, runs>>
    /\ others_unchanged

\* lines 79-82
Answer ==
    /\ app_pc = "streaming"
    /\ session' = [session EXCEPT !.messages =
                      Some(Append(session.messages[1],
                                  [role |-> "assistant", content |-> "reply"]))]
    /\ app_pc' = "idle"
    /\ UNCHANGED <<secrets, loads, sent, runs>>
    /\ others_unchanged

\* lines 74-79 raising, or the run cut short by the next rerun
RunEndsEarly ==
    /\ app_pc \in {"chat_input", "streaming"}
    /\ app_pc' = "idle"
    /\ UNCHANGED <<secrets, session, loads, sent, runs>>
    /\ others_unchanged

NextApp ==
    \/ RunStopsWithoutKey
    \/ RunStarts
    \/ LoadCoupons
    \/ LoadCouponsFails
    \/ ContextCached
    \/ NoPrompt
    \/ Ask
    \/ Answer
    \/ RunEndsEarly

SpecApp == InitApp /\ [][NextApp]_vars

\* C10: in one session a load_coupons that succeeded is the last one made; the
\* stored coupon_context is what it returned, and every system prompt sent
\* embeds that context.
C10_ScrapedOncePerSession ==
    /\ \A i \in 1..Len(loads) :
          ~IsNone(loads[i]) =>
              /\ i = Len(loads)
              /\ session.coupon_context = loads[i]
    /\ ~IsNone(session.coupon_context) =>
          (Len(loads) > 0 /\ loads[Len(loads)] = session.coupon_context)
    /\ \A i \in 1..Len(sent) :
          /\ ~IsNone(session.coupon_context)
          /\ sent[i] = PromptPreamble \o loads[Len(loads)][1]

\* C10's case: a failed load, a successful one, then questions in two later runs.
C10_Witness ==
    /\ Len(loads) = 2
    /\ IsNone(loads[1])
    /\ ~IsNone(loads[2])
    /\ Len(sent) = 2
    /\ runs = 4
    /\ app_pc = "idle"

====
